---- MODULE Spec2Model ----
(***************************************************************************)
(* Instanced3DModel3DTileContentProvider: the lifecycle state machine of   *)
(* one tile content (request -> fetch -> initialize -> downstream          *)
(* readiness), its decoder (initialize) and its destruction.               *)
(*                                                                         *)
(* One content object is modelled.  The request scheduler, the network,    *)
(* the batch table resources and the model instance collection are the     *)
(* environment: the scheduler grants a slot or not, a fetch resolves with  *)
(* some payload or rejects with some error, a collection's readyPromise    *)
(* resolves or rejects.                                                    *)
(***************************************************************************)
EXTENDS Integers, Sequences, FiniteSets, TLC

VARIABLES
    content,      \* the fields of the content provider object
    fetches,      \* outstanding loadArrayBuffer promises carrying the then/otherwise chain
    rejections,   \* rejections of the then() promise not yet handled by otherwise()
    btrs,         \* every Cesium3DTileBatchTableResources constructed so far
    mics,         \* every ModelInstanceCollection constructed so far
    granted,      \* how many request slots the scheduler has granted
    decodes,      \* how many times initialize() has been entered
    allocations,  \* how many times createModels has allocated the models array
    lastOp,       \* history: the operation that produced the current state
    trace,        \* history: the successive values of content.state
    misuse        \* history: request() was called in a state other than UNLOADED

vars == <<content, fetches, rejections, btrs, mics, granted, decodes, allocations,
          lastOp, trace, misuse>>

----------------------------------------------------------------------------
(* Bounds of the model *)

\* slots the request scheduler grants over the life of the content
MaxFetches == 2
\* the instancesLength of a payload that holds instances
MaxInstances == 2

----------------------------------------------------------------------------
(* Cesium3DTileContentState *)

UNLOADED == "UNLOADED"
LOADING == "LOADING"
PROCESSING == "PROCESSING"
READY == "READY"
FAILED == "FAILED"

ContentStates == {UNLOADED, LOADING, PROCESSING, READY, FAILED}

----------------------------------------------------------------------------
(* when.defer(): a deferred is settled once; later settlements are ignored *)

NoValue == "none"

Deferred == [status |-> "pending", value |-> NoValue]

DeferredResolve(d, v) ==
    IF d.status = "pending" THEN [status |-> "resolved", value |-> v] ELSE d

DeferredReject(d, e) ==
    IF d.status = "pending" THEN [status |-> "rejected", value |-> e] ELSE d

----------------------------------------------------------------------------
(* Errors *)

TransportErrors == {"net1", "net2"}
DownstreamErrors == {"gltf1", "gltf2"}
DestroyedError == "tileset is destroyed"
MagicError == "DeveloperError: magic"
VersionError == "DeveloperError: version"
GltfFormatError == "DeveloperError: gltfFormat"
SyntaxError == "SyntaxError"
RangeError == "RangeError"
\* reading a property of undefined
TypeError == "TypeError"
\* getModel: index is required and between zero and instancesLength - 1
IndexError == "DeveloperError: index"
FormatErrors == {MagicError, VersionError, GltfFormatError}

----------------------------------------------------------------------------
(* The binary payload *)

sizeOfUint16 == 2
sizeOfUint32 == 4
sizeOfFloat64 == 8

\* magic, version, byteLength, batchTableByteLength, gltfByteLength,
\* gltfFormat, instancesLength
HeaderByteLength == 7 * sizeOfUint32

\* byte length of the text "{}" and of a one-byte glTF section
BatchTableByteLengths == {0, 2}
GltfByteLengths == {1}

instanceByteLength(hasBatchTable) ==
    sizeOfFloat64 * 2 + (IF hasBatchTable THEN sizeOfUint16 ELSE 0)

\* the bytes the header of h declares: header and the three sections
DeclaredByteLength(h) ==
    HeaderByteLength + h.batchTableByteLength + h.gltfByteLength
        + h.instancesLength * instanceByteLength(h.batchTableByteLength > 0)

Headers ==
    [magic : {"i3dm", "b3dm"},
     version : {1, 2},
     batchTableByteLength : BatchTableByteLengths,
     batchTableIsJson : BOOLEAN,
     gltfByteLength : GltfByteLengths,
     gltfFormat : {0, 1, 2},
     instancesLength : {0, MaxInstances}]

ValidHeaders == {g \in Headers : g.batchTableByteLength = 0 => g.batchTableIsJson}

\* the byte offsets, from the start of the instance section, at which a field
\* of a record starts: longitude, latitude and, with a batch table, batchId
FieldOffsets(batchTableByteLength, length) ==
    LET hasBatchTable == batchTableByteLength > 0
        fields == {0, sizeOfFloat64}
                      \cup (IF hasBatchTable THEN {2 * sizeOfFloat64} ELSE {})
    IN  {i * instanceByteLength(hasBatchTable) + f : i \in 0..(length - 1), f \in fields}

\* the values a field of the section can hold
FieldValues == {0, 2}

\* an instance section whose every field holds the index of its record
IndexedSection(h) ==
    [o \in FieldOffsets(h.batchTableByteLength, h.instancesLength) |->
        o \div instanceByteLength(h.batchTableByteLength > 0)]

\* a buffer holds the declared bytes, or one byte less, or stops inside the header
Payloads ==
    UNION {{[header |-> h, byteLength |-> DeclaredByteLength(h),
             instances |-> IndexedSection(h)],
            [header |-> h, byteLength |-> DeclaredByteLength(h) - 1,
             instances |-> IndexedSection(h)],
            [header |-> h, byteLength |-> HeaderByteLength - sizeOfUint32,
             instances |-> IndexedSection(h)]} :
           h \in ValidHeaders}

WellFormed(p) ==
    /\ p.header.magic = "i3dm"
    /\ p.header.version = 1
    /\ p.header.gltfFormat \in {0, 1}
    /\ p.header.batchTableIsJson
    /\ p.byteLength = DeclaredByteLength(p.header)

\* the well-formed payloads of up to MaxInstances records, with every
\* content of the instance section
InstancePayloads ==
    UNION {{[header |-> [h EXCEPT !.instancesLength = n],
             byteLength |-> DeclaredByteLength([h EXCEPT !.instancesLength = n]),
             instances |-> view] :
              view \in [FieldOffsets(h.batchTableByteLength, n) -> FieldValues]} :
           h \in {g \in ValidHeaders : g.magic = "i3dm" /\ g.version = 1
                                       /\ g.gltfFormat \in {0, 1}
                                       /\ g.batchTableIsJson},
           n \in 0..MaxInstances}

----------------------------------------------------------------------------
(* The content provider object *)

Undefined == 0

\* the constructor
NewContent ==
    [state |-> UNLOADED,
     processingPromise |-> Deferred,
     readyPromise |-> Deferred,
     _batchTableResources |-> Undefined,
     _modelInstanceCollection |-> Undefined,
     _models |-> [defined |-> FALSE, items |-> <<>>],
     destroyed |-> FALSE]

\* destroyObject(content): from then on the object reports itself destroyed
destroyObject(c) == [c EXCEPT !.destroyed = TRUE]

\* isDestroyed(): the prototype's function returns false; it is the answer
\* until destroyObject has marked the object
isDestroyed(c) == IF c.destroyed THEN TRUE ELSE FALSE

\* new Cesium3DTileBatchTableResources(content, featuresLength)
NewBatchTableResources == [destroys |-> 0]

\* new ModelInstanceCollection(options)
NewModelInstanceCollection(instances) ==
    [length |-> Len(instances), instances |-> instances,
     ready |-> "pending", destroys |-> 0]

----------------------------------------------------------------------------
(* initialize(arrayBuffer): the decoder.  The result holds the content as   *)
(* initialize leaves it, the error it threw ("none" when it returned), and  *)
(* the resources it constructed on the way.                                 *)

\* a DataView or typed-array access of n bytes at offset off
InBuffer(p, off, n) == off + n <= p.byteLength

Threw(c, e, made) ==
    [c |-> c, threw |-> e, btr |-> made, mic |-> <<>>]

\* mutant: the version and glTF format checks are missing
headerErrorUnchecked(p) ==
    LET h == p.header
    IN  IF h.magic # "i3dm" THEN MagicError
        ELSE IF ~InBuffer(p, 6 * sizeOfUint32, sizeOfUint32) THEN RangeError
        ELSE "none"

\* the checks of the header, in the order initialize makes them: the error
\* thrown before anything is constructed, "none" when the header passes
headerError(p) ==
    LET h == p.header
    IN  IF h.magic # "i3dm" THEN MagicError
        ELSE IF h.version # 1 THEN VersionError
        ELSE IF ~InBuffer(p, 6 * sizeOfUint32, sizeOfUint32) THEN RangeError
        ELSE IF h.gltfFormat # 0 /\ h.gltfFormat # 1 THEN GltfFormatError
        ELSE "none"

\* DataView.getFloat64(byteOffset, true) and getUint16(byteOffset, true)
getFloat64(view, byteOffset) == view[byteOffset]
getUint16(view, byteOffset) == view[byteOffset]

\* Cartesian3.fromRadians(longitude, latitude, height, ellipsoid): the point
\* of the ellipsoid the coordinates name
fromRadians(longitude, latitude, height) ==
    [longitude |-> longitude, latitude |-> latitude, height |-> height]

\* Transforms.eastNorthUpToFixedFrame(position): the frame whose origin is position
eastNorthUpToFixedFrame(position) == [origin |-> position]

\* mutant: the batch id is the array index whether or not there is a batch table
instanceBatchIdIndex(view, byteOffset, hasBatchTable, i) == i

\* the batch id of instance i, read at byteOffset if there is a batch table
instanceBatchId(view, byteOffset, hasBatchTable, i) ==
    IF hasBatchTable THEN getUint16(view, byteOffset) ELSE i

\* the loop over the records: instances i, i + 1, ... are read from byteOffset on
RECURSIVE readInstances(_, _, _, _, _, _)
readInstances(view, instancesLength, hasBatchTable, i, byteOffset, instances) ==
    IF ~(i < instancesLength) THEN instances
    ELSE LET longitude == getFloat64(view, byteOffset)
             latitudeOffset == byteOffset + sizeOfFloat64
             latitude == getFloat64(view, latitudeOffset)
             batchIdOffset == latitudeOffset + sizeOfFloat64
             height == 0
             batchId == instanceBatchId(view, batchIdOffset, hasBatchTable, i)
             nextOffset == IF hasBatchTable THEN batchIdOffset + sizeOfUint16
                           ELSE batchIdOffset
             position == fromRadians(longitude, latitude, height)
             modelMatrix == eastNorthUpToFixedFrame(position)
         IN  readInstances(view, instancesLength, hasBatchTable, i + 1, nextOffset,
                           Append(instances, [modelMatrix |-> modelMatrix,
                                              batchId |-> batchId]))

initialize(c, p, btrId, micId) ==
    LET h == p.header
        hasBatchTable == h.batchTableByteLength > 0
        gltfOffset == HeaderByteLength + h.batchTableByteLength
        instancesOffset == gltfOffset + h.gltfByteLength
        instancesByteLength == h.instancesLength * instanceByteLength(hasBatchTable)
        resources == NewBatchTableResources
        withTable == [c EXCEPT !._batchTableResources = btrId]
    IN  IF headerError(p) # "none" THEN Threw(c, headerError(p), <<>>)
        ELSE IF hasBatchTable /\ ~h.batchTableIsJson
            THEN Threw(withTable, SyntaxError, <<resources>>)
        ELSE IF ~InBuffer(p, gltfOffset, h.gltfByteLength)
            THEN Threw(withTable, RangeError, <<resources>>)
        ELSE IF ~InBuffer(p, instancesOffset, instancesByteLength)
            THEN Threw(withTable, RangeError, <<resources>>)
        ELSE [c |-> [withTable EXCEPT
                        !._modelInstanceCollection = micId,
                        !.state = PROCESSING,
                        !.processingPromise = DeferredResolve(@, "content")],
              threw |-> "none",
              btr |-> <<resources>>,
              mic |-> <<NewModelInstanceCollection(
                           readInstances(p.instances, h.instancesLength,
                                         hasBatchTable, 0, 0, <<>>))>>]

----------------------------------------------------------------------------
(* The handlers of the content *)

\* mutant: the chain is attached and the state set whatever the scheduler answered
requestAlways(c, slot) ==
    [c |-> [c EXCEPT !.state = LOADING], attached |-> TRUE]

\* mutant: request() does nothing unless the state is UNLOADED
requestGuarded(c, slot) ==
    IF slot /\ c.state = UNLOADED
        THEN [c |-> [c EXCEPT !.state = LOADING], attached |-> TRUE]
        ELSE [c |-> c, attached |-> FALSE]

\* mutant: the fetch is started and the state is left as it was
requestKeepsState(c, slot) ==
    [c |-> c, attached |-> slot]

\* request(): the state after the scheduler answered (slot: a promise was returned)
\* and whether the then/otherwise chain was attached to a fetch
request(c, slot) ==
    IF slot THEN [c |-> [c EXCEPT !.state = LOADING], attached |-> TRUE]
    ELSE [c |-> c, attached |-> FALSE]

\* the then() callback of the fetch
fetched(c, p, btrId, micId) ==
    IF isDestroyed(c)
        THEN Threw(c, DestroyedError, <<>>)
        ELSE initialize(c, p, btrId, micId)

\* mutant: a failed fetch puts the content back to UNLOADED
fetchFailedResets(c, error) ==
    [c EXCEPT !.state = UNLOADED, !.readyPromise = DeferredReject(@, error)]

\* mutant: a failed fetch replaces readyPromise by a rejected promise
fetchFailedOverwrites(c, error) ==
    [c EXCEPT !.state = FAILED,
              !.readyPromise = [status |-> "rejected", value |-> error]]

\* mutant: a failed fetch does not reject readyPromise
fetchFailedSilently(c, error) ==
    [c EXCEPT !.state = FAILED]

\* mutant: a failed fetch rejects processingPromise as well
fetchFailedRejectsBoth(c, error) ==
    [c EXCEPT !.state = FAILED,
              !.processingPromise = DeferredReject(@, error),
              !.readyPromise = DeferredReject(@, error)]

\* mutant: a failed fetch is ignored
fetchFailedIgnored(c, error) == c

\* the otherwise() callback of the fetch chain
fetchFailed(c, error) ==
    [c EXCEPT !.state = FAILED, !.readyPromise = DeferredReject(@, error)]

\* mutant: readyPromise is resolved and the state is left as it was
collectionReadyKeepsState(c) ==
    [c EXCEPT !.readyPromise = DeferredResolve(@, "content")]

\* the then() callback on modelInstanceCollection.readyPromise
collectionReady(c) ==
    [c EXCEPT !.state = READY, !.readyPromise = DeferredResolve(@, "content")]

\* mutant: readyPromise is rejected with an error of the content's own
collectionFailedOwnError(c, error) ==
    [c EXCEPT !.state = FAILED, !.readyPromise = DeferredReject(@, "failed")]

\* mutant: readyPromise is rejected and the state is left as it was
collectionFailedKeepsState(c, error) ==
    [c EXCEPT !.readyPromise = DeferredReject(@, error)]

\* the otherwise() callback on modelInstanceCollection.readyPromise
collectionFailed(c, error) ==
    [c EXCEPT !.state = FAILED, !.readyPromise = DeferredReject(@, error)]

\* mutant: the resources are destroyed and the fields keep them
destroyKeepsFields(c) == destroyObject(c)

\* destroy(): each resource field takes the value of field && field.destroy(),
\* which is undefined, then destroyObject(this)
destroy(c) ==
    destroyObject([c EXCEPT !._modelInstanceCollection = Undefined,
                            !._batchTableResources = Undefined])

\* resource.destroy() on the resource a field holds, if it holds one
Release(resources, id) ==
    IF id = Undefined THEN resources
    ELSE [resources EXCEPT ![id].destroys = @ + 1]

----------------------------------------------------------------------------
(* getModel(index) *)

\* new BatchedModel(tileset, batchTableResources, batchId), the k-th array's
BatchedModel(resources, batchId, k) ==
    [resources |-> resources, batchId |-> batchId, allocation |-> k]

\* mutant: the array is allocated on every call
createModelsEveryCall(c, instancesLength, k) ==
    IF instancesLength > 0
        THEN [c EXCEPT !._models =
                [defined |-> TRUE,
                 items |-> [i \in 1..instancesLength |->
                              BatchedModel(c._batchTableResources, i - 1, k)]]]
        ELSE c

\* createModels(content): the array is allocated if it is not defined yet
\* and there are instances
createModels(c, instancesLength, k) ==
    IF ~c._models.defined /\ instancesLength > 0
        THEN [c EXCEPT !._models =
                [defined |-> TRUE,
                 items |-> [i \in 1..instancesLength |->
                              BatchedModel(c._batchTableResources, i - 1, k)]]]
        ELSE c

NoModel == BatchedModel(Undefined, Undefined, Undefined)

\* mutant: the models are created before the index is checked
getModelChecksLate(c, collections, index, k) ==
    IF c._modelInstanceCollection = Undefined
        THEN [c |-> c, error |-> TypeError, result |-> NoModel]
    ELSE LET instancesLength == collections[c._modelInstanceCollection].length
             created == createModels(c, instancesLength, k)
         IN  IF index < 0 \/ index >= instancesLength
                 THEN [c |-> created, error |-> IndexError, result |-> NoModel]
                 ELSE [c |-> created, error |-> "none",
                       result |-> created._models.items[index + 1]]

\* getModel(index): the content after the call, the error thrown ("none" when
\* it returned) and the model returned
getModel(c, collections, index, k) ==
    IF c._modelInstanceCollection = Undefined
        THEN [c |-> c, error |-> TypeError, result |-> NoModel]
    ELSE LET instancesLength == collections[c._modelInstanceCollection].length
         IN  IF index < 0 \/ index >= instancesLength
                 THEN [c |-> c, error |-> IndexError, result |-> NoModel]
                 ELSE LET created == createModels(c, instancesLength, k)
                      IN  [c |-> created, error |-> "none",
                           result |-> created._models.items[index + 1]]

----------------------------------------------------------------------------
(* update(tiles3D, frameState) *)

\* the resources whose update() a call of update() invoked
Updated(batchTable, collection) ==
    [batchTable |-> batchTable, collection |-> collection]

\* mutant: only the collection is updated
updateCollectionOnly(c) ==
    IF c._modelInstanceCollection = Undefined
        THEN [c |-> c, error |-> TypeError, updated |-> Updated(Undefined, Undefined)]
        ELSE [c |-> c, error |-> "none",
              updated |-> Updated(Undefined, c._modelInstanceCollection)]

\* update(): the content after the call, the error thrown ("none" when it
\* returned) and the resources updated, the batch table resources first
update(c) ==
    IF c._batchTableResources = Undefined
        THEN [c |-> c, error |-> TypeError, updated |-> Updated(Undefined, Undefined)]
    ELSE IF c._modelInstanceCollection = Undefined
        THEN [c |-> c, error |-> TypeError,
              updated |-> Updated(c._batchTableResources, Undefined)]
    ELSE [c |-> c, error |-> "none",
          updated |-> Updated(c._batchTableResources, c._modelInstanceCollection)]

----------------------------------------------------------------------------
(* History *)

\* what a decode was given: the header's batch table byte length and
\* instances length, and the instance section
Decoded(p) ==
    [batchTableByteLength |-> p.header.batchTableByteLength,
     instancesLength |-> p.header.instancesLength,
     view |-> p.instances]

NoDecode ==
    [batchTableByteLength |-> Undefined, instancesLength |-> Undefined, view |-> <<>>]

OpOf(name, error, index, result, decoded) ==
    [op |-> name, error |-> error, index |-> index, result |-> result,
     decoded |-> decoded, updated |-> Updated(Undefined, Undefined)]

OpAt(name, error, index, result) == OpOf(name, error, index, result, NoDecode)

Op(name, error) == OpAt(name, error, Undefined, NoModel)

\* the values of state are recorded while request() is used as specified
Track(c, wrong) ==
    IF ~wrong /\ c.state # content.state THEN Append(trace, c.state) ELSE trace

----------------------------------------------------------------------------
(* The state machine *)

Init ==
    /\ content = NewContent
    /\ fetches = 0
    /\ rejections = <<>>
    /\ btrs = <<>>
    /\ mics = <<>>
    /\ granted = 0
    /\ decodes = 0
    /\ allocations = 0
    /\ lastOp = Op("new", "none")
    /\ trace = <<UNLOADED>>
    /\ misuse = FALSE

\* the tile calls request() on a content it has not destroyed; the scheduler
\* returns a promise (slot) or undefined
Request(slot) ==
    /\ ~isDestroyed(content)
    /\ slot => granted < MaxFetches
    /\ content' = request(content, slot).c
    /\ fetches' = IF request(content, slot).attached THEN fetches + 1 ELSE fetches
    /\ granted' = IF slot THEN granted + 1 ELSE granted
    /\ misuse' = (misuse \/ content.state # UNLOADED)
    /\ lastOp' = Op(IF slot THEN "request" ELSE "requestDenied", "none")
    /\ trace' = Track(content', misuse')
    /\ UNCHANGED <<rejections, btrs, mics, decodes, allocations>>

\* loadArrayBuffer resolves with payload p: the then() callback runs
FetchResolve(p) ==
    /\ fetches > 0
    /\ LET r == fetched(content, p, Len(btrs) + 1, Len(mics) + 1)
       IN  /\ content' = r.c
           /\ btrs' = btrs \o r.btr
           /\ mics' = mics \o r.mic
           /\ rejections' = IF r.threw = "none" THEN rejections
                            ELSE Append(rejections, r.threw)
           /\ decodes' = IF isDestroyed(content) THEN decodes ELSE decodes + 1
           /\ lastOp' = OpOf("fetchResolve", r.threw, Undefined, NoModel,
                             IF r.threw = "none" THEN Decoded(p) ELSE NoDecode)
    /\ fetches' = fetches - 1
    /\ trace' = Track(content', misuse)
    /\ UNCHANGED <<granted, allocations, misuse>>

\* loadArrayBuffer rejects with error e: the otherwise() callback runs
FetchReject(e) ==
    /\ fetches > 0
    /\ content' = fetchFailed(content, e)
    /\ fetches' = fetches - 1
    /\ lastOp' = Op("fetchReject", e)
    /\ trace' = Track(content', misuse)
    /\ UNCHANGED <<rejections, btrs, mics, granted, decodes, allocations, misuse>>

\* the then() callback threw or returned a rejection: the otherwise() callback runs
Otherwise ==
    /\ rejections # <<>>
    /\ content' = fetchFailed(content, Head(rejections))
    /\ rejections' = Tail(rejections)
    /\ lastOp' = Op("otherwise", Head(rejections))
    /\ trace' = Track(content', misuse)
    /\ UNCHANGED <<fetches, btrs, mics, granted, decodes, allocations, misuse>>

\* the readyPromise of collection i resolves
CollectionResolve(i) ==
    /\ mics[i].ready = "pending"
    /\ mics' = [mics EXCEPT ![i].ready = "resolved"]
    /\ content' = collectionReady(content)
    /\ lastOp' = Op("collectionResolve", "none")
    /\ trace' = Track(content', misuse)
    /\ UNCHANGED <<fetches, rejections, btrs, granted, decodes, allocations, misuse>>

\* the readyPromise of collection i rejects with error e
CollectionReject(i, e) ==
    /\ mics[i].ready = "pending"
    /\ mics' = [mics EXCEPT ![i].ready = "rejected"]
    /\ content' = collectionFailed(content, e)
    /\ lastOp' = Op("collectionReject", e)
    /\ trace' = Track(content', misuse)
    /\ UNCHANGED <<fetches, rejections, btrs, granted, decodes, allocations, misuse>>

\* the tile calls destroy()
Destroy ==
    /\ content' = destroy(content)
    /\ mics' = Release(mics, content._modelInstanceCollection)
    /\ btrs' = Release(btrs, content._batchTableResources)
    /\ lastOp' = Op(IF isDestroyed(content) THEN "destroyAgain" ELSE "destroy", "none")
    /\ trace' = Track(content', misuse)
    /\ UNCHANGED <<fetches, rejections, granted, decodes, allocations, misuse>>

\* a caller asks a content it has not destroyed for the model of an index
GetModel(index) ==
    /\ ~isDestroyed(content)
    /\ LET r == getModel(content, mics, index, allocations + 1)
       IN  /\ content' = r.c
           /\ allocations' = IF r.c._models # content._models
                                 THEN allocations + 1 ELSE allocations
           /\ lastOp' = OpAt("getModel", r.error, index, r.result)
    /\ trace' = Track(content', misuse)
    /\ UNCHANGED <<fetches, rejections, btrs, mics, granted, decodes, misuse>>

\* the tile calls update() on a content it has not destroyed
Update ==
    /\ ~isDestroyed(content)
    /\ content' = update(content).c
    /\ lastOp' = [Op("update", update(content).error)
                    EXCEPT !.updated = update(content).updated]
    /\ trace' = Track(content', misuse)
    /\ UNCHANGED <<fetches, rejections, btrs, mics, granted, decodes, allocations,
                   misuse>>

Next ==
    \/ \E slot \in BOOLEAN : Request(slot)
    \/ \E p \in Payloads : FetchResolve(p)
    \/ \E e \in TransportErrors : FetchReject(e)
    \/ Otherwise
    \/ \E i \in DOMAIN mics : CollectionResolve(i)
    \/ \E i \in DOMAIN mics, e \in DownstreamErrors : CollectionReject(i, e)
    \/ Destroy

Spec == Init /\ [][Next]_vars

\* every fetch settles, a rejection of the then() callback reaches the
\* otherwise() callback, and the readyPromise of every collection settles
FetchSettles ==
    \/ \E p \in Payloads : FetchResolve(p)
    \/ \E e \in TransportErrors : FetchReject(e)

CollectionSettles ==
    \/ \E i \in DOMAIN mics : CollectionResolve(i)
    \/ \E i \in DOMAIN mics, e \in DownstreamErrors : CollectionReject(i, e)

FairSpec ==
    /\ Spec
    /\ WF_vars(FetchSettles)
    /\ WF_vars(Otherwise)
    /\ WF_vars(CollectionSettles)

\* the decoder alone: request() has been granted a fetch, which resolves
\* with a well-formed payload
DecodeInit ==
    /\ content = request(NewContent, TRUE).c
    /\ fetches = 1
    /\ rejections = <<>>
    /\ btrs = <<>>
    /\ mics = <<>>
    /\ granted = 1
    /\ decodes = 0
    /\ allocations = 0
    /\ lastOp = Op("request", "none")
    /\ trace = <<UNLOADED, LOADING>>
    /\ misuse = FALSE

DecodeNext ==
    \/ \E p \in InstancePayloads : FetchResolve(p)
    \/ \E i \in DOMAIN mics : CollectionResolve(i)

DecodeSpec == DecodeInit /\ [][DecodeNext]_vars

\* the accessors of a decoded content: request() was granted a fetch, which
\* resolved with a well-formed payload; from then on the collection settles
\* and the tile calls getModel(), update() and destroy()
AccessInit ==
    \E p \in InstancePayloads :
        LET r == initialize(request(NewContent, TRUE).c, p, 1, 1)
        IN  /\ content = r.c
            /\ fetches = 0
            /\ rejections = <<>>
            /\ btrs = r.btr
            /\ mics = r.mic
            /\ granted = 1
            /\ decodes = 1
            /\ allocations = 0
            /\ lastOp = OpOf("fetchResolve", "none", Undefined, NoModel, Decoded(p))
            /\ trace = <<UNLOADED, LOADING, PROCESSING>>
            /\ misuse = FALSE

AccessNext ==
    \/ \E i \in DOMAIN mics : CollectionResolve(i)
    \/ \E i \in DOMAIN mics, e \in DownstreamErrors : CollectionReject(i, e)
    \/ Destroy
    \/ \E index \in -1..MaxInstances : GetModel(index)
    \/ Update

AccessSpec == AccessInit /\ [][AccessNext]_vars

----------------------------------------------------------------------------
(* Properties *)

Rank(st) ==
    CASE st = UNLOADED -> 0
      [] st = LOADING -> 1
      [] st = PROCESSING -> 2
      [] st = READY -> 3
      [] st = FAILED -> 4

\* a change of state from a to b that the lifecycle allows
Forward(a, b) ==
    \/ a \notin {READY, FAILED} /\ b # FAILED /\ Rank(a) < Rank(b)
    \/ a \in {LOADING, PROCESSING} /\ b = FAILED

Rejected(e) == [status |-> "rejected", value |-> e]
Resolved == [status |-> "resolved", value |-> "content"]

Success == <<UNLOADED, LOADING, PROCESSING, READY>>
FetchFailure == <<UNLOADED, LOADING, FAILED>>
DownstreamFailure == <<UNLOADED, LOADING, PROCESSING, FAILED>>

\* C1 as stated: under every sequence of request(), fetch outcomes, readiness
\* outcomes and destroy(), state only moves forward in UNLOADED < LOADING <
\* PROCESSING < READY, FAILED is entered only from LOADING or PROCESSING, and
\* READY and FAILED are never left.
C1_StateOnlyAdvances ==
    [][content'.state # content.state => Forward(content.state, content'.state)]_vars

\* C1 amended: the same, as long as request() has only been called while the
\* state was UNLOADED.
C1_StateOnlyAdvancesWhenRequestedUnloaded ==
    [][(~misuse' /\ content'.state # content.state)
          => Forward(content.state, content'.state)]_vars

\* a content destroyed during its fetch, whose continuation then failed it
C1_Witness ==
    /\ ~misuse
    /\ content.destroyed
    /\ lastOp.op = "otherwise"
    /\ content.state = FAILED

\* C2: one granted request(), a fetch that succeeds with a well-formed payload
\* and a collection whose readyPromise resolves take state through exactly
\* UNLOADED, LOADING, PROCESSING, READY, and readyPromise is resolved at the
\* step that makes state READY and at no other.
C2_SuccessfulLoad ==
    [][~misuse' =>
        /\ lastOp'.op = "collectionResolve"
              => /\ content'.state = READY
                 /\ trace' = Success
                 /\ content'.readyPromise = Resolved
        /\ (content.readyPromise.status # "resolved"
              /\ content'.readyPromise.status = "resolved")
              => (content.state = PROCESSING /\ content'.state = READY)
        /\ (content.state # READY /\ content'.state = READY)
              => (content.readyPromise.status = "pending"
                    /\ content'.readyPromise.status = "resolved")]_vars

C2_Witness ==
    /\ ~misuse
    /\ ~content.destroyed
    /\ content.state = READY
    /\ trace = Success
    /\ content.readyPromise = Resolved

\* C3: when the fetch fails with error e, state goes UNLOADED, LOADING, FAILED,
\* readyPromise is rejected with e, and no batch table resources and no model
\* instance collection is constructed then or later.
C3_FetchFailure ==
    [][~misuse' =>
        /\ lastOp'.op = "fetchReject"
              => /\ content'.state = FAILED
                 /\ trace' = FetchFailure
                 /\ content'.readyPromise = Rejected(lastOp'.error)
                 /\ btrs' = <<>> /\ mics' = <<>>
        /\ (trace = FetchFailure /\ btrs = <<>>)
              => /\ content'.state = FAILED
                 /\ trace' = FetchFailure
                 /\ content'.readyPromise = content.readyPromise
                 /\ btrs' = <<>> /\ mics' = <<>>]_vars

C3_Witness ==
    /\ ~misuse
    /\ lastOp.op = "fetchReject"
    /\ content.readyPromise = Rejected("net2")
    /\ trace = FetchFailure

\* C4: when the content is PROCESSING and the collection's readyPromise
\* rejects with error e, state becomes FAILED, having gone UNLOADED, LOADING,
\* PROCESSING, FAILED, and readyPromise is rejected with e.
C4_DownstreamFailure ==
    [][(~misuse' /\ lastOp'.op = "collectionReject")
          => /\ content.state = PROCESSING
             /\ content'.state = FAILED
             /\ trace' = DownstreamFailure
             /\ content'.readyPromise = Rejected(lastOp'.error)]_vars

C4_Witness ==
    /\ ~misuse
    /\ lastOp.op = "collectionReject"
    /\ content.readyPromise = Rejected("gltf2")
    /\ trace = DownstreamFailure

\* C5 as stated: when destroy() was called during the fetch and the fetch then
\* succeeds, the continuation does not decode, constructs no resource and
\* leaves state as it was at destroy().
C5_DestroyedFetchAbandons ==
    [][/\ (lastOp'.op = "fetchResolve" /\ content.destroyed)
            => /\ decodes' = decodes
               /\ btrs' = btrs /\ mics' = mics
               /\ content'.state = content.state
       /\ (lastOp'.op = "otherwise" /\ lastOp'.error = DestroyedError)
            => content'.state = content.state]_vars

\* C6: a request() the scheduler grants no slot changes nothing: state, the
\* two promises and the resources stay as they were and no continuation is
\* registered; a slot may still be granted to a later request().
C6_DeniedRequestIsNoOp ==
    /\ [][lastOp'.op = "requestDenied"
            => /\ content' = content
               /\ fetches' = fetches
               /\ rejections' = rejections
               /\ btrs' = btrs /\ mics' = mics]_vars
    /\ []((lastOp.op = "requestDenied" /\ granted < MaxFetches)
            => ENABLED Request(TRUE))

C6_Witness ==
    /\ lastOp.op = "requestDenied"
    /\ content.state = UNLOADED
    /\ fetches = 0

\* C7 as stated: request() sets LOADING and starts a fetch only from UNLOADED;
\* in LOADING, PROCESSING, READY or FAILED it changes nothing and starts no
\* fetch even when a slot is granted.
C7_RequestOnlyFromUnloaded ==
    [][lastOp'.op = "request" =>
         IF content.state = UNLOADED
            THEN content'.state = LOADING /\ fetches' = fetches + 1
            ELSE content'.state = content.state /\ fetches' = fetches]_vars

\* C7 amended: a request() that is granted a slot sets LOADING and starts a
\* fetch whatever the state was.
C7_GrantedRequestAlwaysLoads ==
    [][lastOp'.op = "request"
         => content'.state = LOADING /\ fetches' = fetches + 1]_vars

\* a request() granted after the content was READY
C7_Witness ==
    /\ lastOp.op = "request"
    /\ content.state = LOADING
    /\ content.readyPromise = Resolved
    /\ fetches = 1

\* C8 as stated: the content holds the batch table resources and the model
\* instance collection both or neither.
C8_ResourcesBothOrNeither ==
    (content._batchTableResources = Undefined)
        <=> (content._modelInstanceCollection = Undefined)

\* payloads that are well formed but for the one field named
BadMagic(p) == p.header.magic # "i3dm" /\ WellFormed([p EXCEPT !.header.magic = "i3dm"])
BadVersion(p) == p.header.version # 1 /\ WellFormed([p EXCEPT !.header.version = 1])
BadGltfFormat(p) ==
    p.header.gltfFormat \notin {0, 1} /\ WellFormed([p EXCEPT !.header.gltfFormat = 0])

\* C9: on a payload valid but for its magic, its version or its glTF format,
\* initialize throws the format error to its caller and has then changed
\* neither state nor a promise and constructed no resource.
C9_FormatErrorBeforeAnyMutation ==
    /\ [](\A p \in Payloads :
            LET r == initialize(content, p, Len(btrs) + 1, Len(mics) + 1)
            IN  /\ BadMagic(p) => r = Threw(content, MagicError, <<>>)
                /\ BadVersion(p) => r = Threw(content, VersionError, <<>>)
                /\ BadGltfFormat(p) => r = Threw(content, GltfFormatError, <<>>))
    /\ [][(lastOp'.op = "fetchResolve" /\ lastOp'.error \in FormatErrors)
            => /\ content' = content
               /\ btrs' = btrs /\ mics' = mics
               /\ rejections' = Append(rejections, lastOp'.error)]_vars

C9_Witness ==
    /\ lastOp.op = "fetchResolve"
    /\ lastOp.error = VersionError
    /\ content.state = LOADING
    /\ content.readyPromise = Deferred
    /\ content.processingPromise = Deferred
    /\ btrs = <<>> /\ mics = <<>>

\* C10 as stated: under any sequence of request() calls and fetch completions
\* initialize runs at most once and each resource is constructed at most once.
C10_DecodedOnce ==
    decodes <= 1 /\ Len(btrs) <= 1 /\ Len(mics) <= 1

\* C10 amended: the same, as long as request() has only been called while the
\* state was UNLOADED.
C10_DecodedOnceWhenRequestedUnloaded ==
    ~misuse => (decodes <= 1 /\ Len(btrs) <= 1 /\ Len(mics) <= 1)

C10_Witness ==
    /\ ~misuse
    /\ decodes = 1 /\ Len(btrs) = 1 /\ Len(mics) = 1
    /\ fetches = 0
    /\ granted = 1

C12_ReadySettledOnce ==
    [][content.readyPromise.status # "pending"
          => content'.readyPromise = content.readyPromise]_vars

\* a second fetch failed with another error after readyPromise was rejected
C12_Witness ==
    /\ lastOp.op = "fetchReject"
    /\ content.readyPromise.status = "rejected"
    /\ content.readyPromise.value # lastOp.error

\* the length of the collection the content holds
instancesLength == mics[content._modelInstanceCollection].length

\* C13: getModel(index) with index < 0 or index >= instancesLength (every
\* index when instancesLength is 0) fails with the index error and leaves
\* the models array as it was, unallocated if it was unallocated.
C13_GetModelOutOfRange ==
    [][(/\ lastOp'.op = "getModel"
        /\ content._modelInstanceCollection # Undefined
        /\ (lastOp'.index < 0 \/ lastOp'.index >= instancesLength))
          => /\ lastOp'.error = IndexError
             /\ content' = content
             /\ allocations' = allocations]_vars

\* the index one past the last instance asked of a decoded content
C13_Witness ==
    /\ lastOp.op = "getModel"
    /\ lastOp.error = IndexError
    /\ content._modelInstanceCollection # Undefined
    /\ instancesLength = MaxInstances
    /\ lastOp.index = MaxInstances
    /\ ~content._models.defined

\* C14: over getModel calls with valid indices on a decoded content the
\* models array is allocated once, by the first call whatever its index, with
\* instancesLength entries, entry i bound to index i; later calls return the
\* entry stored, so the same index gives the same model.
C14_ModelsAllocatedOnce ==
    /\ [](allocations <= 1)
    /\ [][content._models.defined => content'._models = content._models]_vars
    /\ [][(lastOp'.op = "getModel" /\ lastOp'.error = "none")
            => LET models == content'._models
               IN  /\ models.defined
                   /\ Len(models.items) = instancesLength
                   /\ \A i \in 1..Len(models.items) :
                         /\ models.items[i].batchId = i - 1
                         /\ models.items[i].resources = content._batchTableResources
                         /\ models.items[i].allocation = 1
                   /\ allocations' = 1
                   /\ lastOp'.result = models.items[lastOp'.index + 1]]_vars

\* the model of the last instance, returned from an array allocated before
C14_Witness ==
    /\ lastOp.op = "getModel"
    /\ lastOp.error = "none"
    /\ lastOp.index = MaxInstances - 1
    /\ lastOp.result = BatchedModel(content._batchTableResources, MaxInstances - 1, 1)
    /\ content.state = READY

\* C15: for a well-formed payload the decoder hands the collection exactly
\* instancesLength instances in record order; instance i comes from the record
\* at byte offset i * recordSize of the instance section (recordSize 16 without
\* a batch table, 18 with one), and its id is i without a batch table and the
\* 16-bit value stored in record i with one.
C15_InstancesInRecordOrder ==
    (lastOp.op = "fetchResolve" /\ lastOp.error = "none")
        => LET d == lastOp.decoded
               recordSize == IF d.batchTableByteLength = 0 THEN 16 ELSE 18
               instances == mics[content._modelInstanceCollection].instances
           IN  /\ Len(instances) = d.instancesLength
               /\ \A i \in 0..(d.instancesLength - 1) :
                     /\ instances[i + 1].modelMatrix =
                           eastNorthUpToFixedFrame(
                               fromRadians(d.view[i * recordSize],
                                           d.view[i * recordSize + 8], 0))
                     /\ instances[i + 1].batchId =
                           IF d.batchTableByteLength = 0 THEN i
                           ELSE d.view[i * recordSize + 16]

\* MaxInstances records with a batch table, decoded, the ids stored in the
\* first two against their order
C15_Witness ==
    /\ lastOp.op = "fetchResolve"
    /\ lastOp.error = "none"
    /\ lastOp.decoded.batchTableByteLength > 0
    /\ lastOp.decoded.instancesLength = MaxInstances
    /\ Len(mics[1].instances) = MaxInstances
    /\ mics[1].instances[1].batchId = 2
    /\ mics[1].instances[2].batchId = 0
    /\ mics[1].instances[1].modelMatrix # mics[1].instances[2].modelMatrix

\* C16: update() called in PROCESSING or READY invokes update on the batch
\* table resources and on the model instance collection the content holds,
\* and leaves state, processingPromise, readyPromise and the models unchanged.
C16_UpdateDelegatesToBoth ==
    [][(lastOp'.op = "update" /\ content.state \in {PROCESSING, READY})
          => /\ lastOp'.error = "none"
             /\ content._batchTableResources # Undefined
             /\ content._modelInstanceCollection # Undefined
             /\ lastOp'.updated.batchTable = content._batchTableResources
             /\ lastOp'.updated.collection = content._modelInstanceCollection
             /\ content'.state = content.state
             /\ content'.processingPromise = content.processingPromise
             /\ content'.readyPromise = content.readyPromise
             /\ content'._models = content._models]_vars

\* update() on a content still waiting for its collection
C16_Witness ==
    /\ lastOp.op = "update"
    /\ lastOp.error = "none"
    /\ content.state = PROCESSING
    /\ lastOp.updated = Updated(1, 1)
    /\ mics[1].ready = "pending"

\* C17: processingPromise is resolved in the step in which the state becomes
\* PROCESSING with both resources constructed, hence before readyPromise can
\* resolve; it is never rejected; and it stays pending once the fetch failed,
\* the decode threw, or the content was destroyed during the fetch.
C17_ProcessingPromise ==
    /\ [](content.processingPromise.status # "rejected")
    /\ [](content.readyPromise.status = "resolved"
            => content.processingPromise.status = "resolved")
    /\ [][(lastOp'.op = "fetchResolve" /\ lastOp'.error = "none")
            => /\ content'.state = PROCESSING
               /\ content'.processingPromise = Resolved
               /\ content'._batchTableResources = Len(btrs')
               /\ content'._modelInstanceCollection = Len(mics')
               /\ Len(btrs') = Len(btrs) + 1
               /\ Len(mics') = Len(mics) + 1]_vars
    /\ [][content'.processingPromise # content.processingPromise
            => /\ lastOp'.op = "fetchResolve" /\ lastOp'.error = "none"
               /\ content.processingPromise.status = "pending"
               /\ content'.readyPromise = content.readyPromise]_vars
    /\ [][(\/ lastOp'.op \in {"fetchReject", "otherwise"}
           \/ lastOp'.op = "fetchResolve" /\ lastOp'.error # "none")
            => content'.processingPromise = content.processingPromise]_vars
    /\ [][(/\ ~misuse'
           /\ granted > 0 /\ fetches = 0
           /\ content.processingPromise.status = "pending")
            => content'.processingPromise.status = "pending"]_vars

\* the decode has just completed: processingPromise resolved, readyPromise pending
C17_Witness ==
    /\ lastOp.op = "fetchResolve"
    /\ lastOp.error = "none"
    /\ content.state = PROCESSING
    /\ content.processingPromise = Resolved
    /\ content.readyPromise.status = "pending"
    /\ trace = <<UNLOADED, LOADING, PROCESSING>>

\* C18: when request() is only called in UNLOADED, state is READY exactly when
\* readyPromise is resolved, FAILED exactly when it is rejected, and
\* readyPromise is pending in UNLOADED, LOADING and PROCESSING.
C18_StateMatchesReadyPromise ==
    ~misuse
        => /\ content.state = READY <=> content.readyPromise.status = "resolved"
           /\ content.state = FAILED <=> content.readyPromise.status = "rejected"
           /\ content.state \in {UNLOADED, LOADING, PROCESSING}
                 => content.readyPromise.status = "pending"

\* the collection has just failed a content used as specified
C18_Witness ==
    /\ ~misuse
    /\ lastOp.op = "collectionReject"
    /\ content.state = FAILED
    /\ content.readyPromise.status = "rejected"
    /\ content.processingPromise.status = "resolved"

\* C19 as stated: after destroy() in PROCESSING, the readiness outcome of the
\* collection changes neither state nor readyPromise of the destroyed content.
C19_DestroyedIgnoresReadiness ==
    [][(content.destroyed /\ lastOp'.op \in {"collectionResolve", "collectionReject"})
          => /\ content'.state = content.state
             /\ content'.readyPromise = content.readyPromise]_vars

\* C20: once request() has been granted a fetch, if fetches and collections
\* settle, the content reaches READY or FAILED with readyPromise settled; it
\* does not stay in LOADING or PROCESSING, also when the decode throws.
C20_EventuallyTerminal ==
    (granted > 0) ~> (/\ content.state \in {READY, FAILED}
                      /\ content.readyPromise.status # "pending")

\* a format error thrown by the decode has reached the otherwise() callback
C20_Witness ==
    /\ lastOp.op = "otherwise"
    /\ lastOp.error \in FormatErrors
    /\ content.state = FAILED
    /\ content.readyPromise = Rejected(lastOp.error)
    /\ fetches = 0

====
